---- MODULE Spec2Model ----
(***************************************************************************)
(* Posture Detection API (backend/app.py): the PostureAnalyzer pipeline    *)
(* (calculate_angle, detect_exercise_type, the desk and squat rule sets,   *)
(* analyze_frame) and the /analyze endpoint that wraps it, handled by the  *)
(* threads of the Flask server around one shared MediaPipe Pose instance.  *)
(*                                                                         *)
(* Numbers.  Landmark coordinates, thresholds and the confidence are       *)
(* Python floats.  They are modelled as binary floating point numbers with *)
(* a significand of SigBits bits and round-to-nearest-even, held as an     *)
(* integer count of units of 1/One.  Python's float has 53 bits; the       *)
(* binary expansions of the decimal literals used here (multiples of 1/20) *)
(* have period 4, so a significand of 9 = 53 - 4*11 bits rounds every such *)
(* literal in the same direction as a significand of 53 bits does.         *)
(* Angles are carried in whole degrees rounded down to a multiple of 30:   *)
(* the code compares angles only with 120 and 150, and both comparisons    *)
(* have on the rounded value the outcome they have on the angle itself.    *)
(***************************************************************************)
EXTENDS Integers, Sequences, FiniteSets, TLC

\* ------------------------------------------------------------------------
\* Floating point
\* ------------------------------------------------------------------------

SigBits == 9

\* not-a-number, the result of 0.0 / 0.0 on numpy scalars
NaN == 999

RECURSIVE Pow2(_)
Pow2(n) == IF n = 0 THEN 1 ELSE 2 * Pow2(n - 1)

\* the integer that stands for 1.0: the smallest literal, 0.05, lies in
\* [2^-5, 2^-4), where the spacing of the floats is then 2 units
One == Pow2(SigBits + 5)

\* spacing of the representable numbers around the magnitude v >= 0
RECURSIVE Ulp(_)
Ulp(v) == IF v < Pow2(SigBits) THEN 1 ELSE 2 * Ulp(v \div 2)

\* n/d rounded to the nearest integer, ties to the even one (n >= 0, d > 0)
RoundNE(n, d) ==
    LET q == n \div d
        r == n % d
    IN  IF 2 * r < d THEN q
        ELSE IF 2 * r > d THEN q + 1
        ELSE IF q % 2 = 0 THEN q ELSE q + 1

\* the representable number nearest to n/d units (d > 0)
FRound(n, d) ==
    LET m == IF n < 0 THEN -n ELSE n
        u == Ulp(m \div d)
        v == u * RoundNE(m, d * u)
    IN  IF n < 0 THEN -v ELSE v

\* the float a decimal literal n/d denotes, e.g. Lit(1, 10) for 0.1
Lit(n, d) == FRound(n * One, d)

FAdd(a, b) == FRound(a + b, 1)

FSub(a, b) == FRound(a - b, 1)

FHalf(a) == FRound(a, 2)

\* int * float, as in len(issues) * 0.2
FMulInt(n, a) == FRound(n * a, 1)

FAbs(a) == IF a < 0 THEN -a ELSE a

FMax(a, b) == IF a >= b THEN a ELSE b

\* a < b on angles: every comparison with NaN is false
AngleLt(a, b) == a # NaN /\ b # NaN /\ a < b

\* 180 - angle: arithmetic on NaN gives NaN
AngleFrom180(a) == IF a = NaN THEN NaN ELSE 180 - a

\* sign of n1/d1 - n2/d2 for n1, n2 >= 0 and d1, d2 > 0, by continued
\* fractions, so that no product is formed
RECURSIVE CmpFrac(_, _, _, _)
CmpFrac(n1, d1, n2, d2) ==
    LET q1 == n1 \div d1
        q2 == n2 \div d2
        r1 == n1 % d1
        r2 == n2 % d2
    IN  IF q1 < q2 THEN -1
        ELSE IF q1 > q2 THEN 1
        ELSE IF r1 = 0 /\ r2 = 0 THEN 0
        ELSE IF r1 = 0 THEN -1
        ELSE IF r2 = 0 THEN 1
        ELSE -CmpFrac(d1, r1, d2, r2)

\* a * b >= c * d for a, c >= 0 and b, d > 0
ProdGe(a, b, c, d) == CmpFrac(a, d, c, b) >= 0

\* np.degrees(np.arccos(np.clip(dot / sqrt(n1 * n2), -1, 1))) rounded down
\* to a multiple of 30, for n1, n2 > 0: cos 30 = sqrt(3)/2, cos 60 = 1/2
ArccosDegrees(dot, n1, n2) ==
    LET t == 2 * FAbs(dot)
    IN  IF dot = 0 THEN 90
        ELSE IF dot > 0
             THEN IF ProdGe(n1, n2, t, t) THEN 60            \* 4 dot^2 <= n1 n2
                  ELSE IF ProdGe(3 * n1, n2, t, t) THEN 30   \* 4 dot^2 <= 3 n1 n2
                  ELSE 0
             ELSE IF ProdGe(FAbs(dot), FAbs(dot), n1, n2) THEN 180
                  ELSE IF ProdGe(t, t, 3 * n1, n2) THEN 150
                  ELSE IF ProdGe(t, t, n1, n2) THEN 120
                  ELSE 90

\* ------------------------------------------------------------------------
\* PostureAnalyzer
\* ------------------------------------------------------------------------

Point(px, py) == [x |-> px, y |-> py]

\* The except branch of the code (return 0) is never taken for landmark
\* points: dividing the numpy scalar 0.0 by 0.0 gives nan with a
\* RuntimeWarning, it does not raise.
calculate_angle(point1, point2, point3) ==
    LET bax == FSub(point1.x, point2.x)
        bay == FSub(point1.y, point2.y)
        bcx == FSub(point3.x, point2.x)
        bcy == FSub(point3.y, point2.y)
        dot == bax * bcx + bay * bcy
        n1  == bax * bax + bay * bay
        n2  == bcx * bcx + bcy * bcy
    IN  IF n1 = 0 \/ n2 = 0 THEN NaN
        ELSE ArccosDegrees(dot, n1, n2)

\* the landmarks one function reads; a missing one raises at the lookup
DetectLandmarks == {"LEFT_KNEE", "RIGHT_KNEE", "LEFT_HIP", "RIGHT_HIP"}

DeskLandmarks ==
    {"LEFT_SHOULDER", "RIGHT_SHOULDER", "LEFT_EAR", "RIGHT_EAR",
     "LEFT_HIP", "RIGHT_HIP"}

SquatLandmarks ==
    {"LEFT_KNEE", "RIGHT_KNEE", "LEFT_ANKLE", "RIGHT_ANKLE",
     "LEFT_HIP", "RIGHT_HIP", "LEFT_SHOULDER", "RIGHT_SHOULDER"}

\* issues.append(s) when the rule fires
AppendIf(cond, issues, s) == IF cond THEN Append(issues, s) ELSE issues

\* the desk rules with the shoulder level check moved before the slouching
\* check
analyze_desk_posture_reordered(landmarks) ==
    LET left_shoulder  == landmarks["LEFT_SHOULDER"]
        right_shoulder == landmarks["RIGHT_SHOULDER"]
        left_ear       == landmarks["LEFT_EAR"]
        right_ear      == landmarks["RIGHT_EAR"]
        left_hip       == landmarks["LEFT_HIP"]
        right_hip      == landmarks["RIGHT_HIP"]
        avg_shoulder == Point(FHalf(FAdd(left_shoulder.x, right_shoulder.x)),
                              FHalf(FAdd(left_shoulder.y, right_shoulder.y)))
        avg_ear      == Point(FHalf(FAdd(left_ear.x, right_ear.x)),
                              FHalf(FAdd(left_ear.y, right_ear.y)))
        avg_hip      == Point(FHalf(FAdd(left_hip.x, right_hip.x)),
                              FHalf(FAdd(left_hip.y, right_hip.y)))
        neck_angle == calculate_angle(avg_ear, avg_shoulder, avg_hip)
        shoulder_hip_horizontal_diff == FAbs(FSub(avg_shoulder.x, avg_hip.x))
        shoulder_level_diff == FAbs(FSub(left_shoulder.y, right_shoulder.y))
        i1 == AppendIf(AngleLt(neck_angle, 150), <<>>,
                       "Forward head posture detected")
        i2 == AppendIf(shoulder_level_diff > Lit(5, 100), i1,
                       "Uneven shoulders")
        i3 == AppendIf(shoulder_hip_horizontal_diff > Lit(1, 10), i2,
                       "Slouching detected")
    IN  [issues  |-> i3,
         details |-> [neck_angle |-> neck_angle,
                      back_angle |-> AngleFrom180(neck_angle),
                      shoulder_alignment |->
                          shoulder_hip_horizontal_diff < Lit(1, 10)]]

analyze_desk_posture(landmarks) ==
    LET left_shoulder  == landmarks["LEFT_SHOULDER"]
        right_shoulder == landmarks["RIGHT_SHOULDER"]
        left_ear       == landmarks["LEFT_EAR"]
        right_ear      == landmarks["RIGHT_EAR"]
        left_hip       == landmarks["LEFT_HIP"]
        right_hip      == landmarks["RIGHT_HIP"]
        avg_shoulder == Point(FHalf(FAdd(left_shoulder.x, right_shoulder.x)),
                              FHalf(FAdd(left_shoulder.y, right_shoulder.y)))
        avg_ear      == Point(FHalf(FAdd(left_ear.x, right_ear.x)),
                              FHalf(FAdd(left_ear.y, right_ear.y)))
        avg_hip      == Point(FHalf(FAdd(left_hip.x, right_hip.x)),
                              FHalf(FAdd(left_hip.y, right_hip.y)))
        neck_angle == calculate_angle(avg_ear, avg_shoulder, avg_hip)
        shoulder_hip_horizontal_diff == FAbs(FSub(avg_shoulder.x, avg_hip.x))
        shoulder_level_diff == FAbs(FSub(left_shoulder.y, right_shoulder.y))
        i1 == AppendIf(AngleLt(neck_angle, 150), <<>>,
                       "Forward head posture detected")
        i2 == AppendIf(shoulder_hip_horizontal_diff > Lit(1, 10), i1,
                       "Slouching detected")
        i3 == AppendIf(shoulder_level_diff > Lit(5, 100), i2,
                       "Uneven shoulders")
    IN  [issues  |-> i3,
         details |-> [neck_angle |-> neck_angle,
                      back_angle |-> AngleFrom180(neck_angle),
                      shoulder_alignment |->
                          shoulder_hip_horizontal_diff < Lit(1, 10)]]

\* the squat rules with a knee tracking threshold of 0.05 in place of 0.1
analyze_squat_posture_tight(landmarks) ==
    LET left_knee      == landmarks["LEFT_KNEE"]
        right_knee     == landmarks["RIGHT_KNEE"]
        left_ankle     == landmarks["LEFT_ANKLE"]
        right_ankle    == landmarks["RIGHT_ANKLE"]
        left_hip       == landmarks["LEFT_HIP"]
        left_shoulder  == landmarks["LEFT_SHOULDER"]
        left_knee_over_toe  == left_knee.x > left_ankle.x
        right_knee_over_toe == right_knee.x > right_ankle.x
        back_angle == calculate_angle(left_shoulder, left_hip, left_knee)
        knee_tracking_left ==
            FAbs(FSub(left_knee.x, left_ankle.x)) < Lit(5, 100)
        knee_tracking_right ==
            FAbs(FSub(right_knee.x, right_ankle.x)) < Lit(5, 100)
        i1 == AppendIf(left_knee_over_toe \/ right_knee_over_toe, <<>>,
                       "Knees extending beyond toes")
        i2 == AppendIf(AngleLt(back_angle, 150), i1, "Rounded back detected")
        i3 == AppendIf(~(knee_tracking_left /\ knee_tracking_right), i2,
                       "Poor knee tracking")
    IN  [issues  |-> i3,
         details |-> [knee_toe_alignment |->
                          ~(left_knee_over_toe \/ right_knee_over_toe),
                      back_angle |-> back_angle,
                      knee_tracking |->
                          knee_tracking_left /\ knee_tracking_right]]

analyze_squat_posture(landmarks) ==
    LET left_knee      == landmarks["LEFT_KNEE"]
        right_knee     == landmarks["RIGHT_KNEE"]
        left_ankle     == landmarks["LEFT_ANKLE"]
        right_ankle    == landmarks["RIGHT_ANKLE"]
        left_hip       == landmarks["LEFT_HIP"]
        left_shoulder  == landmarks["LEFT_SHOULDER"]
        left_knee_over_toe  == left_knee.x > left_ankle.x
        right_knee_over_toe == right_knee.x > right_ankle.x
        back_angle == calculate_angle(left_shoulder, left_hip, left_knee)
        knee_tracking_left ==
            FAbs(FSub(left_knee.x, left_ankle.x)) < Lit(1, 10)
        knee_tracking_right ==
            FAbs(FSub(right_knee.x, right_ankle.x)) < Lit(1, 10)
        i1 == AppendIf(left_knee_over_toe \/ right_knee_over_toe, <<>>,
                       "Knees extending beyond toes")
        i2 == AppendIf(AngleLt(back_angle, 150), i1, "Rounded back detected")
        i3 == AppendIf(~(knee_tracking_left /\ knee_tracking_right), i2,
                       "Poor knee tracking")
    IN  [issues  |-> i3,
         details |-> [knee_toe_alignment |->
                          ~(left_knee_over_toe \/ right_knee_over_toe),
                      back_angle |-> back_angle,
                      knee_tracking |->
                          knee_tracking_left /\ knee_tracking_right]]

\* the classifier with the threshold of the rule sets, 150, in place of 120
detect_exercise_type_150(landmarks) ==
    LET knee_hip_angle == calculate_angle(landmarks["LEFT_KNEE"],
                                          landmarks["LEFT_HIP"],
                                          landmarks["RIGHT_HIP"])
    IN  IF AngleLt(knee_hip_angle, 150) THEN "squat" ELSE "desk_sitting"

detect_exercise_type(landmarks) ==
    LET knee_hip_angle == calculate_angle(landmarks["LEFT_KNEE"],
                                          landmarks["LEFT_HIP"],
                                          landmarks["RIGHT_HIP"])
    IN  IF AngleLt(knee_hip_angle, 120) THEN "squat" ELSE "desk_sitting"

\* ', '.join(issues)
RECURSIVE Join(_)
Join(issues) ==
    IF Len(issues) = 0 THEN ""
    ELSE IF Len(issues) = 1 THEN issues[1]
    ELSE issues[1] \o ", " \o Join(Tail(issues))

\* exercise_type.replace('_', ' ')
ReplaceUnderscore(exercise_type) ==
    IF exercise_type = "desk_sitting" THEN "desk sitting" ELSE exercise_type

\* details == {} is the function with the empty domain
EmptyDict == <<>>

\* the early return when results.pose_landmarks is empty
NoPersonResult ==
    [is_bad_posture |-> FALSE,
     message        |-> "No person detected in frame",
     confidence     |-> Lit(0, 1),
     details        |-> EmptyDict]

\* the except branch filling in a default exercise_type
ErrorResult_Typed(e) ==
    [is_bad_posture |-> FALSE,
     message        |-> "Analysis error: " \o e,
     confidence     |-> Lit(0, 1),
     exercise_type  |-> "desk_sitting",
     details        |-> EmptyDict]

\* the except branch of analyze_frame; e is str(e) of what was raised
ErrorResult(e) ==
    [is_bad_posture |-> FALSE,
     message        |-> "Analysis error: " \o e,
     confidence     |-> Lit(0, 1),
     details        |-> EmptyDict]

\* the confidence without its floor of 0.5
Confidence_NoFloor(issues) ==
    FSub(Lit(1, 1), FMulInt(Len(issues), Lit(2, 10)))

\* max(0.5, 1.0 - (len(issues) * 0.2))
Confidence(issues) ==
    FMax(Lit(5, 10), FSub(Lit(1, 1), FMulInt(Len(issues), Lit(2, 10))))

\* the result analyze_frame composes from the rule set's return value
ComposeResult(exercise_type, analysis) ==
    LET issues == analysis.issues
        is_bad_posture == Len(issues) > 0
    IN  [is_bad_posture |-> is_bad_posture,
         message        |-> IF is_bad_posture
                            THEN "Bad posture detected: " \o Join(issues)
                            ELSE "Good " \o ReplaceUnderscore(exercise_type)
                                         \o " posture!",
         confidence     |-> Confidence(issues),
         exercise_type  |-> exercise_type,
         details        |-> analysis.details,
         issues         |-> issues]

\* str(e) of the error a lookup of a missing landmark raises
IndexErrorText == "list index out of range"

\* the rule set analyze_frame calls for a classification
RuleSetFor(exercise_type) ==
    IF exercise_type = "squat" THEN "analyze_squat_posture"
    ELSE "analyze_desk_posture"

\* analyze_frame from the return of pose.process on: the result it returns
\* and the analyzer methods it called on the way.  out is what pose.process
\* did: it raised, it found no landmarks, or it returned a landmark list.
AnalyzeAfterPose(out) ==
    IF out.kind = "raise"
    THEN [result |-> ErrorResult(out.text), calls |-> <<>>]
    ELSE IF out.kind = "none"
    THEN [result |-> NoPersonResult, calls |-> <<>>]
    ELSE LET landmarks == out.landmark
             have == DOMAIN landmarks
         IN  IF ~(DetectLandmarks \subseteq have)
             THEN [result |-> ErrorResult(IndexErrorText),
                   calls  |-> <<"detect_exercise_type">>]
             ELSE LET exercise_type == detect_exercise_type(landmarks)
                      rule_set == RuleSetFor(exercise_type)
                      needed == IF exercise_type = "squat"
                                THEN SquatLandmarks ELSE DeskLandmarks
                  IN  [result |->
                          IF ~(needed \subseteq have)
                          THEN ErrorResult(IndexErrorText)
                          ELSE ComposeResult(exercise_type,
                                   IF exercise_type = "squat"
                                   THEN analyze_squat_posture(landmarks)
                                   ELSE analyze_desk_posture(landmarks)),
                       calls |-> <<"detect_exercise_type", rule_set>>]

\* ------------------------------------------------------------------------
\* Inputs
\* ------------------------------------------------------------------------

\* number of request handler threads of the server
NumHandlers == 2

Handlers == 1 .. NumHandlers

LandmarkIds == DeskLandmarks \cup SquatLandmarks

\* a coordinate given in twentieths of the image size
Coord(k) == Lit(k, 20)

At(kx, ky) == Point(Coord(kx), Coord(ky))

\* A landmark list of one subject: the hips are fixed, the left knee, the
\* two ankles' x, the shoulders and the ears vary.
Pose(lk, lax, rax, ls, rs, ear) ==
    [id \in LandmarkIds |->
        CASE id = "LEFT_HIP"       -> At(6, 11)
          [] id = "RIGHT_HIP"      -> At(4, 11)
          [] id = "LEFT_KNEE"      -> At(lk[1], lk[2])
          [] id = "RIGHT_KNEE"     -> At(4, 15)
          [] id = "LEFT_ANKLE"     -> At(lax, 19)
          [] id = "RIGHT_ANKLE"    -> At(rax, 19)
          [] id = "LEFT_SHOULDER"  -> At(ls[1], ls[2])
          [] id = "RIGHT_SHOULDER" -> At(rs[1], rs[2])
          [] id = "LEFT_EAR"       -> At(ear[1], ear[2])
          [] id = "RIGHT_EAR"      -> At(ear[1], ear[2])]

\* left knee: below the hip, far out in front of it (x = 0.5), raised
\* towards hip height, and on the hip itself (a zero-length vector)
LeftKnees == {<<6, 15>>, <<10, 18>>, <<10, 15>>, <<6, 11>>}

LeftAnkleXs == {6, 8, 10}

RightAnkleXs == {4, 1}

LeftShoulders == {<<5, 5>>, <<10, 8>>, <<3, 5>>}

RightShoulders == {<<5, 5>>, <<3, 5>>, <<5, 7>>}

\* ears: above the shoulders, ahead of them, and on the shoulder line
Ears == {<<5, 2>>, <<9, 3>>, <<5, 5>>}

FullPoses ==
    {Pose(lk, lax, rax, ls, rs, ear) :
        lk \in LeftKnees, lax \in LeftAnkleXs, rax \in RightAnkleXs,
        ls \in LeftShoulders, rs \in RightShoulders, ear \in Ears}

Restrict(f, S) == [id \in S |-> f[id]]

\* landmark lists that lack one of the landmarks the analyzer reads
PartialPoses ==
    {Restrict(Pose(lk, 6, 4, <<5, 5>>, <<5, 5>>, <<5, 2>>),
              LandmarkIds \ {id}) :
        lk \in {<<6, 15>>, <<10, 15>>},
        id \in {"LEFT_KNEE", "RIGHT_KNEE", "LEFT_ANKLE", "LEFT_EAR"}}

LandmarksOut(l) == [kind |-> "landmarks", landmark |-> l]

PoseRaises == [kind |-> "raise", text |-> "pose.process failed"]

PoseNone == [kind |-> "none"]

\* what a call of pose.process can do
PoseOutputs ==
    {PoseRaises, PoseNone}
        \cup {LandmarksOut(l) : l \in FullPoses \cup PartialPoses}

\* the outcomes used when handlers run in parallel
ThreadedOutputs ==
    {PoseRaises, PoseNone}
        \cup {LandmarksOut(Pose(lk, 8, 4, <<5, 5>>, rs, <<5, 2>>)) :
                 lk \in {<<10, 18>>, <<10, 15>>},
                 rs \in {<<5, 5>>, <<5, 7>>}}

\* ------------------------------------------------------------------------
\* The /analyze endpoint and its handler threads
\* ------------------------------------------------------------------------

VARIABLES
    pc,        \* per handler: "idle", "in_pose" (inside pose.process), "done"
    frame,     \* per handler: the request's 'frame' field
    poseOut,   \* per handler: what pose.process did for this request
    calls,     \* per handler: the analyzer functions called, in order
    result,    \* per handler: the dict analyze_frame returned
    response   \* per handler: the HTTP response, status and JSON body

vars == <<pc, frame, poseOut, calls, result, response>>

NoOutput == [kind |-> "unset"]

NoResult == EmptyDict

NoResponse == [status |-> 0, body |-> EmptyDict]

Init ==
    /\ pc       = [h \in Handlers |-> "idle"]
    /\ frame    = [h \in Handlers |-> "unset"]
    /\ poseOut  = [h \in Handlers |-> NoOutput]
    /\ calls    = [h \in Handlers |-> <<>>]
    /\ result   = [h \in Handlers |-> NoResult]
    /\ response = [h \in Handlers |-> NoResponse]

\* jsonify(result): status 200
Ok(body) == [status |-> 200, body |-> body]

\* 'frame' not in request.files
NoFrame(h) ==
    /\ pc[h] = "idle"
    /\ pc' = [pc EXCEPT ![h] = "done"]
    /\ frame' = [frame EXCEPT ![h] = "absent"]
    /\ response' = [response EXCEPT ![h] =
                       [status |-> 400,
                        body   |-> [error |-> "No frame provided"]]]
    /\ UNCHANGED <<poseOut, calls, result>>

\* Image.open raises on bytes that are no image; the endpoint's except
\* branch answers
BadImage(h) ==
    /\ pc[h] = "idle"
    /\ pc' = [pc EXCEPT ![h] = "done"]
    /\ frame' = [frame EXCEPT ![h] = "undecodable"]
    /\ response' = [response EXCEPT ![h] =
                       [status |-> 500,
                        body   |-> [error          |-> "cannot identify image file",
                                    is_bad_posture |-> FALSE,
                                    message        |-> "Analysis failed",
                                    confidence     |-> Lit(0, 1)]]]
    /\ UNCHANGED <<poseOut, calls, result>>

\* an image that decodes but has one channel: cv2.cvtColor(RGB2BGR) raises
\* inside analyze_frame, before pose.process
ConvertFails(h) ==
    /\ pc[h] = "idle"
    /\ pc' = [pc EXCEPT ![h] = "done"]
    /\ frame' = [frame EXCEPT ![h] = "gray"]
    /\ calls' = [calls EXCEPT ![h] = <<"analyze_frame">>]
    /\ result' = [result EXCEPT ![h] = ErrorResult("cvtColor failed")]
    /\ response' = [response EXCEPT ![h] = Ok(result'[h])]
    /\ UNCHANGED poseOut

\* a colour image: decoded, converted, and handed to the shared Pose
\* instance; nothing guards the call
EnterPose(h) ==
    /\ pc[h] = "idle"
    /\ pc' = [pc EXCEPT ![h] = "in_pose"]
    /\ frame' = [frame EXCEPT ![h] = "rgb"]
    /\ calls' = [calls EXCEPT ![h] = <<"analyze_frame", "pose.process">>]
    /\ UNCHANGED <<poseOut, result, response>>

\* analyze_frame without its try/except: what is raised inside reaches the
\* except branch of the endpoint, which answers 500
PoseReturns_Propagates(h, out) ==
    /\ pc[h] = "in_pose"
    /\ LET a == AnalyzeAfterPose(out)
           raised == \/ out.kind = "raise"
                     \/ (out.kind = "landmarks"
                            /\ a.result.confidence = Lit(0, 1))
       IN  /\ calls' = [calls EXCEPT ![h] = calls[h] \o a.calls]
           /\ result' = [result EXCEPT ![h] =
                            IF raised THEN NoResult ELSE a.result]
           /\ response' = [response EXCEPT ![h] =
                            IF raised
                            THEN [status |-> 500,
                                  body   |-> [error          |-> "raised",
                                              is_bad_posture |-> FALSE,
                                              message        |-> "Analysis failed",
                                              confidence     |-> Lit(0, 1)]]
                            ELSE Ok(a.result)]
    /\ pc' = [pc EXCEPT ![h] = "done"]
    /\ poseOut' = [poseOut EXCEPT ![h] = out]
    /\ UNCHANGED frame

\* pose.process returns or raises; the rest of analyze_frame and of the
\* endpoint run
PoseReturns(h, out) ==
    /\ pc[h] = "in_pose"
    /\ LET a == AnalyzeAfterPose(out)
       IN  /\ calls' = [calls EXCEPT ![h] = calls[h] \o a.calls]
           /\ result' = [result EXCEPT ![h] = a.result]
           /\ response' = [response EXCEPT ![h] = Ok(a.result)]
    /\ pc' = [pc EXCEPT ![h] = "done"]
    /\ poseOut' = [poseOut EXCEPT ![h] = out]
    /\ UNCHANGED frame

\* the response is sent and the handler is free for the next request
Finish(h) ==
    /\ pc[h] = "done"
    /\ pc' = [pc EXCEPT ![h] = "idle"]
    /\ frame' = [frame EXCEPT ![h] = "unset"]
    /\ poseOut' = [poseOut EXCEPT ![h] = NoOutput]
    /\ calls' = [calls EXCEPT ![h] = <<>>]
    /\ result' = [result EXCEPT ![h] = NoResult]
    /\ response' = [response EXCEPT ![h] = NoResponse]

\* no other handler has a request
Alone(h) == \A g \in Handlers \ {h} : pc[g] = "idle"

\* requests handled one at a time
Next ==
    \E h \in Handlers :
        \/ Alone(h) /\ NoFrame(h)
        \/ Alone(h) /\ BadImage(h)
        \/ Alone(h) /\ ConvertFails(h)
        \/ Alone(h) /\ EnterPose(h)
        \/ \E out \in PoseOutputs : PoseReturns(h, out)
        \/ Finish(h)

Spec == Init /\ [][Next]_vars

\* requests handled in parallel by the threads of the server
NextThreaded ==
    \E h \in Handlers :
        \/ NoFrame(h)
        \/ BadImage(h)
        \/ ConvertFails(h)
        \/ EnterPose(h)
        \/ \E out \in ThreadedOutputs : PoseReturns(h, out)
        \/ Finish(h)

SpecThreaded == Init /\ [][NextThreaded]_vars

\* ------------------------------------------------------------------------
\* Properties
\* ------------------------------------------------------------------------

\* analyze_frame has returned a result for the request of handler h
Returned(h) == pc[h] = "done" /\ DOMAIN result[h] # {}

\* pose.process returned landmarks for the request of handler h
LandmarksDetected(h) == poseOut[h].kind = "landmarks"

Has(r, field) == field \in DOMAIN r

CalledBy(h) == {calls[h][i] : i \in DOMAIN calls[h]}

\* the landmarks read by the analyzer functions handler h called
LandmarksRead(h) ==
    (IF "detect_exercise_type" \in CalledBy(h) THEN DetectLandmarks ELSE {})
    \cup (IF "analyze_squat_posture" \in CalledBy(h) THEN SquatLandmarks ELSE {})
    \cup (IF "analyze_desk_posture" \in CalledBy(h) THEN DeskLandmarks ELSE {})

\* a lookup of a landmark the list lacks raised after detection
LookupFailed(h) ==
    /\ LandmarksDetected(h)
    /\ ~(LandmarksRead(h) \subseteq DOMAIN poseOut[h].landmark)

\* something inside analyze_frame raised
ComputationFailed(h) ==
    frame[h] = "gray" \/ poseOut[h].kind = "raise" \/ LookupFailed(h)

Zero == Lit(0, 1)

ExpectedConfidence(n) ==
    CASE n = 0 -> Lit(1, 1)
      [] n = 1 -> Lit(8, 10)
      [] n = 2 -> Lit(6, 10)
      [] OTHER -> Lit(5, 10)

\* C1: in every result analyze_frame returns, confidence is 0.0 exactly
\* when no subject was detected or a computation inside analyze_frame
\* failed; otherwise it is 1.0, 0.8, 0.6, 0.5 for 0, 1, 2, 3 issues; it is
\* never strictly between 0.0 and 0.5.
C1_ConfidenceValue ==
    \A h \in Handlers :
        Returned(h) =>
            LET r == result[h]
                zero == ~LandmarksDetected(h) \/ ComputationFailed(h)
            IN  /\ (r.confidence = Zero) <=> zero
                /\ ~zero => /\ Has(r, "issues")
                            /\ r.confidence = ExpectedConfidence(Len(r.issues))
                /\ ~(r.confidence > Zero /\ r.confidence < Lit(5, 10))

C1_Witness ==
    \E h \in Handlers :
        /\ Returned(h)
        /\ Has(result[h], "issues")
        /\ Len(result[h].issues) = 3
        /\ result[h].confidence = Lit(5, 10)

\* C2 as stated: exercise_type is absent exactly when no landmarks were
\* detected, so every result for detected landmarks, the failure path
\* included, carries an exercise_type of squat or desk_sitting.
C2_NullIffNoSubject ==
    \A h \in Handlers :
        Returned(h) =>
            /\ ~Has(result[h], "exercise_type") <=> ~LandmarksDetected(h)
            /\ LandmarksDetected(h) =>
                   /\ Has(result[h], "exercise_type")
                   /\ result[h].exercise_type \in {"squat", "desk_sitting"}

\* C2 amended: exercise_type is absent exactly when no landmarks were
\* detected or a computation failed (the results with confidence 0.0); the
\* no-landmarks result has is_bad_posture false and confidence 0.0; every
\* result for detected landmarks without a failure has an exercise_type of
\* squat or desk_sitting.
C2_NullIffNoSubjectOrFailure ==
    \A h \in Handlers :
        Returned(h) =>
            LET r == result[h]
                degraded == ~LandmarksDetected(h) \/ ComputationFailed(h)
            IN  /\ ~Has(r, "exercise_type") <=> degraded
                /\ poseOut[h].kind = "none" =>
                       /\ ~Has(r, "exercise_type")
                       /\ r.is_bad_posture = FALSE
                       /\ r.confidence = Zero
                /\ ~degraded => r.exercise_type \in {"squat", "desk_sitting"}

C2_Witness ==
    \E h \in Handlers :
        /\ Returned(h)
        /\ LookupFailed(h)
        /\ ~Has(result[h], "exercise_type")

\* C3 as stated: a request without the 'frame' field, and one whose frame
\* is no decodable image, is answered with HTTP 400 and an error message,
\* and analyze_frame is not called for it.
C3_InputErrorIs400 ==
    \A h \in Handlers :
        (pc[h] = "done" /\ frame[h] \in {"absent", "undecodable"}) =>
            /\ response[h].status = 400
            /\ Has(response[h].body, "error")
            /\ "analyze_frame" \notin CalledBy(h)

\* C4: when pose.process, the classification or a rule set raises inside
\* analyze_frame, the result has confidence 0.0 and is_bad_posture false
\* and the endpoint answers the request with HTTP 200, that result its body.
C4_FailureIsDegradedResult ==
    \A h \in Handlers :
        (pc[h] = "done" /\ (poseOut[h].kind = "raise" \/ LookupFailed(h))) =>
            /\ Returned(h)
            /\ result[h].confidence = Zero
            /\ result[h].is_bad_posture = FALSE
            /\ response[h].status = 200
            /\ response[h].body = result[h]

\* a rule set raised on a landmark the classification did not need
C4_Witness ==
    \E h \in Handlers :
        /\ pc[h] = "done"
        /\ LookupFailed(h)
        /\ Len(calls[h]) = 4
        /\ response[h].status = 200

\* the left knee lies on the left hip: the vector from the vertex of the
\* knee-hip angle to its first point has length zero
KneeOnHip(l) == l["LEFT_KNEE"] = l["LEFT_HIP"]

\* C5 as stated: calculate_angle returns 0 when one of its two vectors has
\* length zero, so the comparison 0 < 120 classifies the frame as squat.
C5_DegenerateAngleIsZero ==
    \A h \in Handlers :
        (Returned(h) /\ LandmarksDetected(h) /\ ~LookupFailed(h)) =>
            LET l == poseOut[h].landmark
            IN  KneeOnHip(l) =>
                  /\ calculate_angle(l["LEFT_KNEE"], l["LEFT_HIP"],
                                     l["RIGHT_HIP"]) = 0
                  /\ result[h].exercise_type = "squat"

\* C6: for landmarks the classification can read, it is squat exactly when
\* the knee-hip angle is a number strictly below 120 and desk_sitting
\* otherwise (at 120 too), and analyze_frame calls exactly one rule set,
\* the squat one exactly when the classification is squat.
C6_ClassifyAndDispatch ==
    \A h \in Handlers :
        (pc[h] = "done" /\ LandmarksDetected(h)
            /\ DetectLandmarks \subseteq DOMAIN poseOut[h].landmark) =>
            LET l == poseOut[h].landmark
                knee_hip_angle == calculate_angle(l["LEFT_KNEE"],
                                      l["LEFT_HIP"], l["RIGHT_HIP"])
                below == knee_hip_angle # NaN /\ knee_hip_angle < 120
                rule_set == IF below THEN "analyze_squat_posture"
                            ELSE "analyze_desk_posture"
            IN  /\ calls[h] = <<"analyze_frame", "pose.process",
                                "detect_exercise_type", rule_set>>
                /\ Has(result[h], "exercise_type") =>
                       result[h].exercise_type =
                           IF below THEN "squat" ELSE "desk_sitting"

\* a frame whose knee-hip angle is in the 120 degree step is desk_sitting
C6_Witness ==
    \E h \in Handlers :
        /\ Returned(h)
        /\ LandmarksDetected(h)
        /\ DetectLandmarks \subseteq DOMAIN poseOut[h].landmark
        /\ calculate_angle(poseOut[h].landmark["LEFT_KNEE"],
                           poseOut[h].landmark["LEFT_HIP"],
                           poseOut[h].landmark["RIGHT_HIP"]) = 120
        /\ Has(result[h], "exercise_type")
        /\ result[h].exercise_type = "desk_sitting"

\* the landmark set of C7: left knee at x = 0.5, left ankle at x = 0.4,
\* right knee not beyond and within 0.1 of the right ankle
C7_Case(l) ==
    /\ l["LEFT_KNEE"].x = Lit(5, 10)
    /\ l["LEFT_ANKLE"].x = Lit(4, 10)
    /\ l["RIGHT_KNEE"].x <= l["RIGHT_ANKLE"].x
    /\ FAbs(FSub(l["RIGHT_KNEE"].x, l["RIGHT_ANKLE"].x)) < Lit(1, 10)

\* C7: the squat rule set on such a landmark set with a back angle of at
\* least 150 yields the single issue knees-beyond-toes.
C7_KneesBeyondToesOnly ==
    \A h \in Handlers :
        (Returned(h) /\ LandmarksDetected(h) /\ ~LookupFailed(h)
            /\ result[h].exercise_type = "squat"
            /\ C7_Case(poseOut[h].landmark)
            /\ result[h].details.back_angle # NaN
            /\ result[h].details.back_angle >= 150) =>
            result[h].issues = <<"Knees extending beyond toes">>

C7_Witness ==
    \E h \in Handlers :
        /\ Returned(h) /\ LandmarksDetected(h) /\ ~LookupFailed(h)
        /\ result[h].exercise_type = "squat"
        /\ C7_Case(poseOut[h].landmark)
        /\ result[h].details.back_angle = 150
        /\ result[h].issues = <<"Knees extending beyond toes">>

InSeq(x, q) == \E i \in DOMAIN q : q[i] = x

\* C8 as stated: in every result of the desk rule set shoulder_alignment
\* is false exactly when the slouching issue is emitted.
C8_AlignmentIffNoSlouching ==
    \A h \in Handlers :
        (Returned(h) /\ Has(result[h], "exercise_type")
            /\ result[h].exercise_type = "desk_sitting") =>
            (result[h].details.shoulder_alignment
                <=> ~InSeq("Slouching detected", result[h].issues))

DeskOrder ==
    <<"Forward head posture detected", "Slouching detected",
      "Uneven shoulders">>

SquatOrder ==
    <<"Knees extending beyond toes", "Rounded back detected",
      "Poor knee tracking">>

\* q lists some of the entries of order, each once, in the order of order
InOrderOf(q, order) ==
    \E pos \in [DOMAIN q -> DOMAIN order] :
        /\ \A i \in DOMAIN q : q[i] = order[pos[i]]
        /\ \A i, j \in DOMAIN q : i < j => pos[i] < pos[j]

Prefix == "Bad posture detected: "

\* C9: the issues of a result appear in the order of the rules, each at
\* most once, and the message of a bad posture is the prefix followed by
\* exactly those issues separated by ', '.
C9_IssueOrder ==
    \A h \in Handlers :
        (Returned(h) /\ Has(result[h], "issues")) =>
            LET r == result[h]
                q == r.issues
            IN  /\ InOrderOf(q, IF r.exercise_type = "squat"
                                THEN SquatOrder ELSE DeskOrder)
                /\ Len(q) = 1 => r.message = Prefix \o q[1]
                /\ Len(q) = 2 => r.message = Prefix \o q[1] \o ", " \o q[2]
                /\ Len(q) = 3 =>
                       r.message = Prefix \o q[1] \o ", " \o q[2]
                                          \o ", " \o q[3]
                /\ Len(q) <= 3

C9_Witness ==
    \E h \in Handlers :
        /\ Returned(h) /\ Has(result[h], "issues")
        /\ result[h].issues = DeskOrder
        /\ result[h].message =
               "Bad posture detected: Forward head posture detected, Slouching detected, Uneven shoulders"

\* C10 as stated: no two handlers are inside pose.process at the same time.
C10_PoseCallsSerialized ==
    Cardinality({h \in Handlers : pc[h] = "in_pose"}) <= 1

====
